---- MODULE Spec2Model ----
(***************************************************************************)
(* Model of lib/api.js: the SonarrAPI client (constructor, _request and    *)
(* the four verb methods get/post/put/delete) and the request-promise      *)
(* transport it hands its requests to.                                     *)
(*                                                                         *)
(* JavaScript values are tagged records; a JavaScript string is a sequence *)
(* of one-character strings, so that concatenation, regular-expression     *)
(* tests, parseInt, encodeURIComponent and base64 are computed and not     *)
(* assumed.  Names of headers and of request options are never transformed *)
(* by the code and are kept as plain strings.                              *)
(***************************************************************************)
EXTENDS Integers, Sequences, FiniteSets, TLC

\* ------------------------------------------------------------------------
\* JavaScript values
\* ------------------------------------------------------------------------
Undefined == [t |-> "undefined"]
Null == [t |-> "null"]
NaN == [t |-> "number", nan |-> TRUE, v |-> 0]
Num(n) == [t |-> "number", nan |-> FALSE, v |-> n]
Bool(b) == [t |-> "boolean", v |-> b]
Str(s) == [t |-> "string", v |-> s]
\* an object literal: its own enumerable properties in insertion order
Obj(pairs) == [t |-> "object", v |-> pairs]
Arr(elems) == [t |-> "array", v |-> elems]

\* the typeof operator
typeof(x) ==
    CASE x.t = "undefined" -> "undefined"
      [] x.t = "null" -> "object"
      [] x.t = "array" -> "object"
      [] x.t = "error" -> "object"
      [] OTHER -> x.t

\* ToBoolean: the truthiness test of if, ! , && and ||
ToBoolean(x) ==
    CASE x.t = "undefined" -> FALSE
      [] x.t = "null" -> FALSE
      [] x.t = "boolean" -> x.v
      [] x.t = "number" -> (~x.nan) /\ x.v # 0
      [] x.t = "string" -> Len(x.v) > 0
      [] OTHER -> TRUE

\* a || b
Or(a, b) == IF ToBoolean(a) THEN a ELSE b

\* ------------------------------------------------------------------------
\* Characters
\* ------------------------------------------------------------------------
\* the printable ASCII characters, code 32 at index 1 (code 96, the grave
\* accent, is spelled out: the character cannot be written in a string)
Ascii ==
    << " ", "!", "\"", "#", "$", "%", "&", "'", "(", ")", "*", "+", ",", "-", ".", "/",
       "0", "1", "2", "3", "4", "5", "6", "7", "8", "9", ":", ";", "<", "=", ">", "?",
       "@", "A", "B", "C", "D", "E", "F", "G", "H", "I", "J", "K", "L", "M", "N", "O",
       "P", "Q", "R", "S", "T", "U", "V", "W", "X", "Y", "Z", "[", "\\", "]", "^", "_",
       "(grave)", "a", "b", "c", "d", "e", "f", "g", "h", "i", "j", "k", "l", "m", "n", "o",
       "p", "q", "r", "s", "t", "u", "v", "w", "x", "y", "z", "{", "|", "}", "~" >>

CharCodes ==
    [c \in {Ascii[i] : i \in 1..Len(Ascii)} |-> 31 + (CHOOSE i \in 1..Len(Ascii) : Ascii[i] = c)]

CharCode(c) == CharCodes[c]

Digit == <<"0", "1", "2", "3", "4", "5", "6", "7", "8", "9">>
HexDigit == Digit \o <<"A", "B", "C", "D", "E", "F">>
IsDigit(c) == \E i \in 1..10 : Digit[i] = c
DigitValue(c) == (CHOOSE i \in 1..10 : Digit[i] = c) - 1
IsLower(c) == CharCode(c) >= 97 /\ CharCode(c) <= 122
IsUpper(c) == CharCode(c) >= 65 /\ CharCode(c) <= 90

\* the character class [a-z0-9]
LowerAlnum(c) == IsLower(c) \/ IsDigit(c)

RECURSIVE DecimalDigits(_)
DecimalDigits(n) ==
    IF n < 10 THEN <<Digit[n + 1]>>
    ELSE DecimalDigits(n \div 10) \o <<Digit[(n % 10) + 1]>>

RECURSIVE JoinWith(_, _)
\* Array.prototype.join on an array of character sequences
JoinWith(parts, sep) ==
    IF Len(parts) = 0 THEN <<>>
    ELSE IF Len(parts) = 1 THEN parts[1]
    ELSE parts[1] \o sep \o JoinWith(Tail(parts), sep)

RECURSIVE JsToString(_)
\* ToString: the conversion applied by string concatenation and by
\* encodeURIComponent to a non-string operand
JsToString(x) ==
    CASE x.t = "string" -> x.v
      [] x.t = "undefined" -> <<"u", "n", "d", "e", "f", "i", "n", "e", "d">>
      [] x.t = "null" -> <<"n", "u", "l", "l">>
      [] x.t = "boolean" -> IF x.v THEN <<"t", "r", "u", "e">>
                            ELSE <<"f", "a", "l", "s", "e">>
      [] x.t = "number" -> IF x.nan THEN <<"N", "a", "N">>
                           ELSE IF x.v < 0 THEN <<"-">> \o DecimalDigits(-x.v)
                           ELSE DecimalDigits(x.v)
      [] x.t = "array" ->
            JoinWith([i \in 1..Len(x.v) |->
                         IF x.v[i].t \in {"undefined", "null"} THEN <<>>
                         ELSE JsToString(x.v[i])], <<",">>)
      [] OTHER -> <<"[", "o", "b", "j", "e", "c", "t", " ", "O", "b", "j", "e", "c", "t", "]">>

StartsWith(s, prefix) ==
    Len(s) >= Len(prefix) /\ SubSeq(s, 1, Len(prefix)) = prefix

Drop(s, n) == SubSeq(s, n + 1, Len(s))

\* ------------------------------------------------------------------------
\* Library functions the client calls
\* ------------------------------------------------------------------------
IsWhite(c) == c = " "

RECURSIVE TrimLeft(_)
TrimLeft(s) == IF Len(s) > 0 /\ IsWhite(s[1]) THEN TrimLeft(Tail(s)) ELSE s

RECURSIVE DigitPrefixValue(_, _)
DigitPrefixValue(s, acc) ==
    IF Len(s) > 0 /\ IsDigit(s[1])
    THEN DigitPrefixValue(Tail(s), 10 * acc + DigitValue(s[1]))
    ELSE acc

\* parseInt(x) with no radix, on decimal input: skip leading blanks, take an
\* optional sign and the longest prefix of digits; NaN when there is no digit.
\* It never throws.
parseInt(x) ==
    LET s == TrimLeft(JsToString(x))
        neg == Len(s) > 0 /\ s[1] = "-"
        body == IF Len(s) > 0 /\ s[1] \in {"-", "+"} THEN Tail(s) ELSE s
    IN  IF Len(body) > 0 /\ IsDigit(body[1])
        THEN Num(IF neg THEN -DigitPrefixValue(body, 0) ELSE DigitPrefixValue(body, 0))
        ELSE NaN

\* the characters encodeURIComponent leaves alone
Unreserved(c) ==
    IsLower(c) \/ IsUpper(c) \/ IsDigit(c)
        \/ c \in {"-", "_", ".", "!", "~", "*", "'", "(", ")"}

PercentEncode(c) ==
    <<"%", HexDigit[(CharCode(c) \div 16) + 1], HexDigit[(CharCode(c) % 16) + 1]>>

RECURSIVE EncodeChars(_)
EncodeChars(s) ==
    IF Len(s) = 0 THEN <<>>
    ELSE (IF Unreserved(s[1]) THEN <<s[1]>> ELSE PercentEncode(s[1]))
            \o EncodeChars(Tail(s))

encodeURIComponent(x) == EncodeChars(JsToString(x))

Base64Alphabet ==
    << "A", "B", "C", "D", "E", "F", "G", "H", "I", "J", "K", "L", "M", "N", "O", "P",
       "Q", "R", "S", "T", "U", "V", "W", "X", "Y", "Z", "a", "b", "c", "d", "e", "f",
       "g", "h", "i", "j", "k", "l", "m", "n", "o", "p", "q", "r", "s", "t", "u", "v",
       "w", "x", "y", "z", "0", "1", "2", "3", "4", "5", "6", "7", "8", "9", "+", "/" >>

RECURSIVE Base64Bytes(_)
Base64Bytes(b) ==
    IF Len(b) = 0 THEN <<>>
    ELSE IF Len(b) = 1 THEN
        << Base64Alphabet[(b[1] \div 4) + 1],
           Base64Alphabet[((b[1] % 4) * 16) + 1], "=", "=" >>
    ELSE IF Len(b) = 2 THEN
        << Base64Alphabet[(b[1] \div 4) + 1],
           Base64Alphabet[((b[1] % 4) * 16 + (b[2] \div 16)) + 1],
           Base64Alphabet[((b[2] % 16) * 4) + 1], "=" >>
    ELSE
        << Base64Alphabet[(b[1] \div 4) + 1],
           Base64Alphabet[((b[1] % 4) * 16 + (b[2] \div 16)) + 1],
           Base64Alphabet[((b[2] % 16) * 4 + (b[3] \div 64)) + 1],
           Base64Alphabet[(b[3] % 64) + 1] >>
        \o Base64Bytes(SubSeq(b, 4, Len(b)))

\* new Buffer(s).toString('base64') for an ASCII string
Base64(s) == Base64Bytes([i \in 1..Len(s) |-> CharCode(s[i])])


\* ------------------------------------------------------------------------
\* jsonToQueryString
\* ------------------------------------------------------------------------
\* Object.keys(json): the property names of an object literal in insertion
\* order, the indices of an array
ObjectKeys(json) ==
    IF json.t = "array" THEN [i \in 1..Len(json.v) |-> DecimalDigits(i - 1)]
    ELSE IF json.t = "object" THEN [i \in 1..Len(json.v) |-> json.v[i][1]]
    ELSE <<>>

\* json[key] for the i-th key of Object.keys(json)
ValueAt(json, i) == IF json.t = "array" THEN json.v[i] ELSE json.v[i][2]

\* the callback of map: undefined for a null value, which join renders as
\* the empty string
QueryEntry(json, i) ==
    IF ValueAt(json, i) # Null
    THEN encodeURIComponent(Str(ObjectKeys(json)[i])) \o <<"=">>
            \o encodeURIComponent(ValueAt(json, i))
    ELSE <<>>

jsonToQueryString(json) ==
    <<"?">> \o JoinWith([i \in 1..Len(ObjectKeys(json)) |-> QueryEntry(json, i)], <<"&">>)

\* ------------------------------------------------------------------------
\* SonarrAPI: the constructor
\* ------------------------------------------------------------------------
NoClient == [t |-> "none"]

TypeError(message) == [t |-> "error", name |-> "TypeError", message |-> message]

\* the slip of asking for either credential instead of both
HttpAuthEither(username, password) == ToBoolean(username) \/ ToBoolean(password)

\* `http_auth` requested
HttpAuthRequested(username, password) == ToBoolean(username) /\ ToBoolean(password)

SchemeHttp == <<"h", "t", "t", "p", ":", "/", "/">>
SchemeHttps == <<"h", "t", "t", "p", "s", ":", "/", "/">>

\* hostname.replace(/^https?:\/\//, '')
SanitizeHostname(hostname) ==
    IF StartsWith(hostname, SchemeHttp) THEN Drop(hostname, Len(SchemeHttp))
    ELSE IF StartsWith(hostname, SchemeHttps) THEN Drop(hostname, Len(SchemeHttps))
    ELSE hostname

\* Validate `port`: parseInt never throws, so the catch clause never runs
ValidatePort(port) ==
    IF (~ToBoolean(port)) \/ typeof(port) # "number" THEN parseInt(port) ELSE port

\* the repetition count of the API key pattern
KeyPatternLength == 32

\* apiKey.search(/[^a-z0-9]{32}/): the 0-based index of the first run of 32
\* characters outside [a-z0-9], -1 when there is none
SearchInvalidRun(apiKey) ==
    LET starts == {i \in 1..(Len(apiKey) - KeyPatternLength + 1) :
                      \A j \in i..(i + KeyPatternLength - 1) : ~LowerAlnum(apiKey[j])}
    IN  IF starts = {} THEN -1
        ELSE (CHOOSE i \in starts : \A k \in starts : i <= k) - 1

\* URL Base exists && is valid
NormalizeUrlBase(urlBase) ==
    IF ToBoolean(urlBase) /\ urlBase.v[1] # "/" THEN Str(<<"/">> \o urlBase.v)
    ELSE urlBase

DefaultPort == 8989

\* Construct the URL; add in the base URL if present; completed API URL
ServerApi(ssl, hostname, port, urlBase) ==
    LET serverUrl == <<"h", "t", "t", "p">>
                        \o (IF ssl # Bool(FALSE) THEN <<"s">> ELSE <<>>)
                        \o <<":", "/", "/">> \o hostname \o <<":">> \o JsToString(port)
    IN  (IF ToBoolean(urlBase) THEN serverUrl \o urlBase.v ELSE serverUrl)
            \o <<"/", "a", "p", "i", "/">>

\* new SonarrAPI(options): the object built, or the error thrown
constructor(options) ==
    LET port == Or(options.port, Num(DefaultPort))
        ssl == Or(options.ssl, Bool(FALSE))
        username == Or(options.username, Null)
        password == Or(options.password, Null)
        auth == HttpAuthRequested(username, password)
    IN  IF ~ToBoolean(options.hostname)
        THEN [threw |-> TRUE, error |-> TypeError("Hostname is empty"), this |-> NoClient]
        ELSE IF options.apiKey.t # "string"
        THEN \* this.apiKey.search on a value that has no search method
             [threw |-> TRUE, error |-> TypeError("apiKey.search"), this |-> NoClient]
        ELSE IF SearchInvalidRun(options.apiKey.v) # -1
        THEN [threw |-> TRUE, error |-> TypeError("API Key is an invalid"), this |-> NoClient]
        ELSE LET hostname == SanitizeHostname(options.hostname.v)
                 validPort == ValidatePort(port)
                 urlBase == NormalizeUrlBase(options.urlBase)
             IN  [threw |-> FALSE, error |-> Undefined,
                  this |-> [hostname |-> Str(hostname),
                            port |-> validPort,
                            apiKey |-> options.apiKey,
                            urlBase |-> urlBase,
                            ssl |-> ssl,
                            username |-> username,
                            password |-> password,
                            auth |-> Bool(auth),
                            serverApi |-> Str(ServerApi(ssl, hostname, validPort, urlBase))]]

\* ------------------------------------------------------------------------
\* SonarrAPI._request: the request handed to request-promise
\* ------------------------------------------------------------------------
\* Append the server URL, api, and relative url and - if GET params those too
apiUrl(this, actions) ==
    LET url == this.serverApi.v \o JsToString(actions.relativeUrl)
    IN  IF ToBoolean(actions.parameters) /\ actions.method = "GET"
        THEN url \o jsonToQueryString(actions.parameters)
        ELSE url

\* Object.assign(target, source)
Assign(target, source) == source @@ target

\* Build the HTTP request headers (the media type is a literal the code never
\* transforms: it is kept as one token)
headers(this, actions) ==
    LET key == ("X-API-KEY" :> this.apiKey)
        typed == IF actions.method = "GET"
                 THEN Assign(key, ("Accept" :> Str(<<"application/json">>)))
                 ELSE Assign(key, ("Content-Type" :> Str(<<"application/json">>)))
    IN  IF this.auth.v
        THEN Assign(typed,
                ("Authorization" :>
                    Str(<<"B", "a", "s", "i", "c", " ">>
                        \o Base64(JsToString(this.username) \o <<":">>
                                    \o JsToString(this.password)))))
        ELSE typed

\* request options
requestOptions(this, actions) ==
    LET base == ("url" :> Str(apiUrl(this, actions)))
                    @@ ("headers" :> headers(this, actions))
        withSsl == IF ToBoolean(this.ssl)
                   THEN Assign(base, ("strictSSL" :> Bool(FALSE)))
                   ELSE base
        withMethod == Assign(withSsl, ("method" :> actions.method))
    IN  IF actions.method \in {"POST", "PUT", "DELETE"}
        THEN Assign(withMethod, ("json" :> actions.parameters))
        ELSE Assign(withMethod, ("json" :> Bool(TRUE)))


\* ------------------------------------------------------------------------
\* State
\* ------------------------------------------------------------------------
VARIABLES
    options,    \* the options of the latest `new SonarrAPI(options)`
    client,     \* the constructed client (its fields), NoClient before
    ctorError,  \* the error the latest construction threw, Undefined if none
    calls,      \* the verb calls made so far, in call order
    transport   \* the requests handed to request-promise, in order

vars == <<options, client, ctorError, calls, transport>>

\* the number of verb calls made in one run
MaxCalls == 2
\* the same, in the run over the wide sets of arguments
MaxShapeCalls == 1

Init ==
    /\ options = Undefined
    /\ client = NoClient
    /\ ctorError = Undefined
    /\ calls = <<>>
    /\ transport = <<>>

\* new SonarrAPI(opts): a run constructs once
New(opts) ==
    /\ options = Undefined
    /\ options' = opts
    /\ LET built == constructor(opts)
       IN  /\ client' = built.this
           /\ ctorError' = built.error
    /\ UNCHANGED <<calls, transport>>

\* the slip of handing the request to rp a second time
_requestTwice(call, actions) ==
    /\ transport' = transport
            \o << [call |-> call, options |-> requestOptions(client, actions),
                   state |-> "pending", value |-> Undefined],
                  [call |-> call, options |-> requestOptions(client, actions),
                   state |-> "pending", value |-> Undefined] >>
    /\ client' = client

\* the slip of building the URL in the client's field instead of a local
_requestKeepsUrl(call, actions) ==
    /\ transport' = Append(transport,
            [call |-> call, options |-> requestOptions(client, actions),
             state |-> "pending", value |-> Undefined])
    /\ client' = [client EXCEPT !.serverApi = Str(apiUrl(client, actions))]

\* _request(actions), called by the call at position `call`: the request is
\* built from the client's fields and handed to rp, once; no field is written
_request(call, actions) ==
    /\ transport' = Append(transport,
            [call |-> call, options |-> requestOptions(client, actions),
             state |-> "pending", value |-> Undefined])
    /\ client' = client

\* a verb call that throws before it reaches _request
Throws(method, relativeUrl, parameters, error) ==
    /\ calls' = Append(calls,
            [method |-> method, relativeUrl |-> relativeUrl, parameters |-> parameters,
             state |-> "threw", value |-> error])
    /\ UNCHANGED <<client, transport>>

\* a verb call that reaches _request and returns its promise
Dispatches(method, relativeUrl, parameters) ==
    /\ calls' = Append(calls,
            [method |-> method, relativeUrl |-> relativeUrl, parameters |-> parameters,
             state |-> "pending", value |-> Undefined])
    /\ _request(Len(calls) + 1,
            [relativeUrl |-> relativeUrl, method |-> method, parameters |-> parameters])

\* the default of the parameters argument: parameters = {}
DefaultParameters(parameters) == IF parameters = Undefined THEN Obj(<<>>) ELSE parameters

\* the slip of leaving out the test of relativeUrl
getUnchecked(relativeUrl, parameters) ==
    /\ client # NoClient
    /\ UNCHANGED <<options, ctorError>>
    /\ IF typeof(DefaultParameters(parameters)) # "object"
       THEN Throws("GET", relativeUrl, parameters, TypeError("Parameters must be type object"))
       ELSE Dispatches("GET", relativeUrl, DefaultParameters(parameters))

get(relativeUrl, parameters) ==
    /\ client # NoClient
    /\ UNCHANGED <<options, ctorError>>
    /\ IF relativeUrl = Undefined
       THEN Throws("GET", relativeUrl, parameters, TypeError("Relative URL is not set"))
       ELSE IF typeof(DefaultParameters(parameters)) # "object"
       THEN Throws("GET", relativeUrl, parameters, TypeError("Parameters must be type object"))
       ELSE Dispatches("GET", relativeUrl, DefaultParameters(parameters))

post(relativeUrl, parameters) ==
    /\ client # NoClient
    /\ UNCHANGED <<options, ctorError>>
    /\ IF relativeUrl = Undefined
       THEN Throws("POST", relativeUrl, parameters, TypeError("Relative URL is not set"))
       ELSE IF typeof(DefaultParameters(parameters)) # "object"
       THEN Throws("POST", relativeUrl, parameters, TypeError("Parameters must be type object"))
       ELSE Dispatches("POST", relativeUrl, DefaultParameters(parameters))

put(relativeUrl, parameters) ==
    /\ client # NoClient
    /\ UNCHANGED <<options, ctorError>>
    /\ IF relativeUrl = Undefined
       THEN Throws("PUT", relativeUrl, parameters, TypeError("Relative URL is not set"))
       ELSE IF typeof(DefaultParameters(parameters)) # "object"
       THEN Throws("PUT", relativeUrl, parameters, TypeError("Parameters must be type object"))
       ELSE Dispatches("PUT", relativeUrl, DefaultParameters(parameters))

delete(relativeUrl, parameters) ==
    /\ client # NoClient
    /\ UNCHANGED <<options, ctorError>>
    /\ IF relativeUrl = Undefined
       THEN Throws("DELETE", relativeUrl, parameters, TypeError("Relative URL is not set"))
       ELSE IF typeof(DefaultParameters(parameters)) # "object"
       THEN Throws("DELETE", relativeUrl, parameters, TypeError("Parameters must be type object"))
       ELSE Dispatches("DELETE", relativeUrl, DefaultParameters(parameters))

\* ------------------------------------------------------------------------
\* request-promise and the handlers chained on its promise
\* ------------------------------------------------------------------------
K_response == <<"r", "e", "s", "p", "o", "n", "s", "e">>
K_body == <<"b", "o", "d", "y">>
K_error == <<"e", "r", "r", "o", "r">>
Unauthorized == <<"U", "n", "a", "u", "t", "h", "o", "r", "i", "z", "e", "d">>

\* x[key] on a value that has properties
Prop(x, key) ==
    IF x.t = "object" /\ \E i \in 1..Len(x.v) : x.v[i][1] = key
    THEN x.v[CHOOSE i \in 1..Len(x.v) : x.v[i][1] = key][2]
    ELSE Undefined

\* reading a property of undefined or null throws
Readable(x) == x.t \notin {"undefined", "null"}

\* .catch(e => ...): the value returned, or the error thrown by the handler
catchHandler(e) ==
    IF ~Readable(Prop(e, K_response))
    THEN [threw |-> TRUE, value |-> TypeError("Cannot read property 'body' of undefined")]
    ELSE IF ~Readable(Prop(Prop(e, K_response), K_body))
    THEN [threw |-> TRUE, value |-> TypeError("Cannot read property 'error' of undefined")]
    ELSE LET body == Prop(Prop(e, K_response), K_body)
         IN  IF ToBoolean(Prop(body, K_error)) /\ Prop(body, K_error) = Str(Unauthorized)
             THEN [threw |-> FALSE, value |-> body]
             ELSE [threw |-> FALSE, value |-> e]

\* .then(response => ...): logs and returns the response
thenHandler(response) == [threw |-> FALSE, value |-> response]

\* request-promise settles the request r: fulfilled with a response body or
\* rejected with a failure object
Respond(r, fulfilled, value) ==
    /\ r \in 1..Len(transport)
    /\ transport[r].state = "pending"
    /\ transport' = [transport EXCEPT
            ![r].state = IF fulfilled THEN "fulfilled" ELSE "rejected",
            ![r].value = value]
    /\ UNCHANGED <<options, client, ctorError, calls>>

\* the handlers of _request run on the settled request r, and the pass-through
\* .then of the verb method settles the call with their outcome
Settle(r) ==
    /\ r \in 1..Len(transport)
    /\ transport[r].state # "pending"
    /\ calls[transport[r].call].state = "pending"
    /\ LET outcome == IF transport[r].state = "fulfilled"
                      THEN thenHandler(transport[r].value)
                      ELSE catchHandler(transport[r].value)
       IN  calls' = [calls EXCEPT
                ![transport[r].call].state = IF outcome.threw THEN "rejected" ELSE "resolved",
                ![transport[r].call].value = outcome.value]
    /\ UNCHANGED <<options, client, ctorError, transport>>


\* ------------------------------------------------------------------------
\* Inputs
\* ------------------------------------------------------------------------
Repeat(c, n) == [i \in 1..n |-> c]

\* a1b2c3d4e5f6a7b8c9d0e1f2a3b4c5d6
GoodKey ==
    << "a", "1", "b", "2", "c", "3", "d", "4", "e", "5", "f", "6", "a", "7", "b", "8",
       "c", "9", "d", "0", "e", "1", "f", "2", "a", "3", "b", "4", "c", "5", "d", "6" >>

ApiKeys ==
    { Undefined,
      Str(GoodKey),
      Str(<<"A">> \o Tail(GoodKey)),                  \* one uppercase letter
      Str(<<"-">> \o Tail(GoodKey)),                  \* one symbol
      Str(<<"K", "e", "y", "!">>),                    \* short, not lowercase
      Str(Repeat("-", KeyPatternLength)),             \* 32 symbols
      Str(Repeat("X", KeyPatternLength - 1)),         \* 31 uppercase letters
      Str(<<"a">> \o Repeat("X", KeyPatternLength)),  \* 32 uppercase after an a
      Str(<<>>) }

Host == <<"n", "a", "s", ".", "l", "a", "n">>

Hostnames ==
    { Undefined, Str(<<>>), Str(Host), Str(SchemeHttp), Str(SchemeHttps),
      Str(SchemeHttp \o Host), Str(SchemeHttps \o Host),
      Str(<<"H", "T", "T", "P", ":", "/", "/">> \o Host) }

Ports ==
    { Undefined, Num(0), Num(80), Str(<<"8", "0", "8", "0">>),
      Str(<<"a", "b", "c">>), Str(<<"8", "0", "a">>), Str(<<>>) }

UrlBases == { Undefined, Str(<<"s", "o", "n", "a", "r", "r">>),
              Str(<<"/", "s", "o", "n", "a", "r", "r">>) }

Flags == { Undefined, Bool(TRUE), Bool(FALSE) }

Usernames == { Undefined, Str(<<>>), Str(<<"u", "s", "e", "r">>) }
Passwords == { Undefined, Str(<<>>), Str(<<"p", "w">>) }

\* the options of the run that only constructs
CtorOptions ==
    [hostname : Hostnames, port : Ports, apiKey : ApiKeys, urlBase : UrlBases,
     ssl : Flags, username : Usernames, password : Passwords]

\* the options of the runs that make calls: the credentials vary
CallOptions ==
    [hostname : {Str(SchemeHttp \o Host)}, port : {Undefined}, apiKey : {Str(GoodKey)},
     urlBase : {Undefined}, ssl : {Undefined},
     username : Usernames, password : {Undefined, Str(<<"p", "w">>)}]

\* the options of the run over the wide sets of arguments
ShapeOptions ==
    [hostname : {Str(Host)}, port : {Str(<<"8", "0", "8", "0">>)}, apiKey : {Str(GoodKey)},
     urlBase : {Undefined, Str(<<"s", "o", "n", "a", "r", "r">>)},
     ssl : {Undefined, Bool(TRUE)},
     username : {Undefined, Str(<<"u", "s", "e", "r">>)}, password : {Str(<<"p", "w">>)}]

Series == Str(<<"s", "e", "r", "i", "e", "s">>)
K_id == <<"i", "d">>
K_term == <<"t", "e", "r", "m">>
K_sort == <<"s", "o", "r", "t", " ", "b", "y">>

\* the parameters arguments: omitted, not objects, null, an array, mappings
Mappings ==
    { Obj(<<>>),
      Obj(<< <<K_id, Num(5)>> >>),
      Obj(<< <<K_term, Null>>, <<K_sort, Str(<<"a", "&", "b">>)>> >>),
      Obj(<< <<K_id, Num(5)>>, <<K_term, Null>>, <<K_sort, Bool(TRUE)>> >>) }

ShapeParameters ==
    { Undefined, Str(<<"n", "o">>), Num(5), Bool(TRUE), Null,
      Arr(<<Num(5), Str(<<"x">>)>>) } \cup Mappings

RelativeUrls == { Undefined, Series }

\* the (relativeUrl, parameters) arguments of the concurrent calls
CallArguments ==
    { <<Undefined, Undefined>>, <<Undefined, Obj(<< <<K_id, Num(5)>> >>)>>,
      <<Series, Undefined>>, <<Series, Str(<<"n", "o">>)>>,
      <<Series, Obj(<< <<K_id, Num(5)>> >>)>> }

\* what request-promise can answer: a decoded body, or a failure with an
\* Unauthorized body, with another body, with a body that has no error field,
\* or with no response at all (a network error)
Responses == { Arr(<< Obj(<< <<K_id, Num(1)>> >>) >>) }

Failure(response) == Obj(<< <<K_response, response>> >>)

UnauthorizedFailure ==
    Failure(Obj(<< <<K_body, Obj(<< <<K_error, Str(Unauthorized)>> >>)>> >>))
NotFoundFailure ==
    Failure(Obj(<< <<K_body,
        Obj(<< <<K_error, Str(<<"N", "o", "t", "F", "o", "u", "n", "d">>)>> >>)>> >>))
PlainBodyFailure == Failure(Obj(<< <<K_body, Obj(<<>>)>> >>))
NetworkFailure == Obj(<<>>)

Failures == { UnauthorizedFailure, NotFoundFailure, PlainBodyFailure, NetworkFailure }

\* the failures of the concurrent calls
CallFailures == { UnauthorizedFailure, NetworkFailure }

\* ------------------------------------------------------------------------
\* Specifications
\* ------------------------------------------------------------------------
\* a run constructs once, with options of the given set
Construct(optionSet) ==
    /\ options = Undefined
    /\ \E opts \in optionSet : New(opts)

Answer(failures) ==
    \E r \in 1..Len(transport) :
        \/ \E body \in Responses : Respond(r, TRUE, body)
        \/ \E e \in failures : Respond(r, FALSE, e)

Run ==
    \E r \in 1..Len(transport) : Settle(r)

\* a client is constructed and makes concurrent calls
Next ==
    \/ Construct(CallOptions)
    \/ \E args \in CallArguments : Len(calls) < MaxCalls /\ get(args[1], args[2])
    \/ \E args \in CallArguments : Len(calls) < MaxCalls /\ post(args[1], args[2])
    \/ \E args \in CallArguments : Len(calls) < MaxCalls /\ put(args[1], args[2])
    \/ \E args \in CallArguments : Len(calls) < MaxCalls /\ delete(args[1], args[2])
    \/ Answer(CallFailures)
    \/ Run

Spec == Init /\ [][Next]_vars

\* one call over every kind of argument and of answer
NextShape ==
    \/ Construct(ShapeOptions)
    \/ \E relativeUrl \in RelativeUrls, parameters \in ShapeParameters :
            Len(calls) < MaxShapeCalls /\ get(relativeUrl, parameters)
    \/ \E relativeUrl \in RelativeUrls, parameters \in ShapeParameters :
            Len(calls) < MaxShapeCalls /\ post(relativeUrl, parameters)
    \/ \E relativeUrl \in RelativeUrls, parameters \in ShapeParameters :
            Len(calls) < MaxShapeCalls /\ put(relativeUrl, parameters)
    \/ \E relativeUrl \in RelativeUrls, parameters \in ShapeParameters :
            Len(calls) < MaxShapeCalls /\ delete(relativeUrl, parameters)
    \/ Answer(Failures)
    \/ Run

SpecShape == Init /\ [][NextShape]_vars

\* construction alone, over every kind of option
NextCtor == Construct(CtorOptions)

SpecCtor == Init /\ [][NextCtor]_vars


\* ------------------------------------------------------------------------
\* Properties
\* ------------------------------------------------------------------------
\* the requests handed to the transport by the call at position i
RequestsOf(i) == {r \in 1..Len(transport) : transport[r].call = i}

Settled(i) == calls[i].state \in {"resolved", "rejected"}

\* C1: whatever way the transport fails, the call resolves and never rejects:
\* to the response body when its error field is "Unauthorized", to the failure
\* object itself otherwise.
C1_FailuresResolve ==
    \A r \in 1..Len(transport) :
        (transport[r].state = "rejected" /\ Settled(transport[r].call)) =>
            LET e == transport[r].value
                body == Prop(Prop(e, K_response), K_body)
                call == calls[transport[r].call]
            IN  /\ call.state = "resolved"
                /\ call.value = IF Prop(body, K_error) = Str(Unauthorized) THEN body ELSE e

\* C2: a verb call without a relativeUrl raises an error and hands no request
\* to the transport, and the requests handed to the transport are as many as
\* the calls that did not raise.
C2_NoRequestWithoutUrl ==
    /\ \A i \in 1..Len(calls) :
            calls[i].relativeUrl = Undefined =>
                /\ calls[i].state = "threw"
                /\ calls[i].value.t = "error"
                /\ RequestsOf(i) = {}
    /\ Len(transport) = Cardinality({i \in 1..Len(calls) : calls[i].state # "threw"})

\* a call without relativeUrl has raised, next to a call that was dispatched
C2_Witness ==
    /\ \E i \in 1..Len(calls) : calls[i].relativeUrl = Undefined /\ calls[i].state = "threw"
    /\ \E i \in 1..Len(calls) : calls[i].state = "pending" /\ RequestsOf(i) # {}

\* C3: a call whose parameters argument is not a mapping (a string, a number,
\* a boolean, null, an array) raises an error and hands no request to the
\* transport.
C3_OnlyMappingsDispatched ==
    \A i \in 1..Len(calls) :
        calls[i].parameters.t \notin {"object", "undefined"} =>
            calls[i].state = "threw" /\ RequestsOf(i) = {}

\* C4: a call that passes its preconditions hands exactly one request to the
\* transport, whatever the outcome, and is settled only once that request has
\* completed.
C4_OneRequestPerCall ==
    \A i \in 1..Len(calls) :
        calls[i].state # "threw" =>
            /\ Cardinality(RequestsOf(i)) = 1
            /\ Settled(i) => \A r \in RequestsOf(i) : transport[r].state # "pending"

\* a call has settled on a failed request, and no second request was made
C4_Witness ==
    \E i \in 1..Len(calls) :
        /\ Settled(i)
        /\ \E r \in RequestsOf(i) : transport[r].state = "rejected"
        /\ Cardinality(RequestsOf(i)) = 1

\* C5: construction fails for an apiKey with a character outside [a-z0-9], so a
\* constructed client holds a lowercase-alphanumeric apiKey; the key
\* a1b2c3d4e5f6a7b8c9d0e1f2a3b4c5d6 is accepted.
C5_ApiKeyLowercaseAlnum ==
    /\ client # NoClient =>
            \A j \in 1..Len(client.apiKey.v) : LowerAlnum(client.apiKey.v[j])
    /\ (options # Undefined /\ options.apiKey = Str(GoodKey) /\ ToBoolean(options.hostname))
            => client # NoClient

\* both credentials were given to the constructor, neither of them empty
BothSupplied ==
    /\ options.username.t = "string" /\ Len(options.username.v) > 0
    /\ options.password.t = "string" /\ Len(options.password.v) > 0

\* C6: a request carries Authorization: Basic base64(username:password) if and
\* only if both credentials were supplied non-empty at construction, and every
\* request carries X-API-KEY with the configured key.
C6_BasicAuthIffBoth ==
    \A r \in 1..Len(transport) :
        LET h == transport[r].options["headers"]
        IN  /\ ("Authorization" \in DOMAIN h) <=> BothSupplied
            /\ BothSupplied =>
                    h["Authorization"] =
                        Str(<<"B", "a", "s", "i", "c", " ">>
                            \o Base64(options.username.v \o <<":">> \o options.password.v))
            /\ "X-API-KEY" \in DOMAIN h
            /\ h["X-API-KEY"] = options.apiKey

\* a request of a client with both credentials, and carrying the header
C6_Witness ==
    \E r \in 1..Len(transport) :
        /\ BothSupplied
        /\ "Authorization" \in DOMAIN transport[r].options["headers"]
        /\ transport[r].options["method"] = "PUT"

\* the pairs key=value of a mapping, url-encoded, null values left out
RECURSIVE EncodedPairs(_)
EncodedPairs(pairs) ==
    IF Len(pairs) = 0 THEN <<>>
    ELSE (IF pairs[1][2] = Null THEN <<>>
          ELSE << encodeURIComponent(Str(pairs[1][1])) \o <<"=">>
                    \o encodeURIComponent(pairs[1][2]) >>)
            \o EncodedPairs(Tail(pairs))

C8_HostnameNonEmpty ==
    client # NoClient => Len(client.hostname.v) > 0

\* C9: construction fails for a port that is no integer and cannot be parsed
\* as one, so a constructed client stores an integer port, 8989 when the
\* option is omitted.
C9_PortIsInteger ==
    client # NoClient =>
        /\ client.port.t = "number" /\ ~client.port.nan
        /\ options.port = Undefined => client.port = Num(DefaultPort)

\* the request the code builds for a call from the client's fields as they are
RequestFor(call) ==
    requestOptions(client,
        [relativeUrl |-> call.relativeUrl, method |-> call.method,
         parameters |-> call.parameters])

\* C10: once the client is constructed no verb call, raising or dispatched,
\* answered or not, changes a field of its configuration, and every request
\* handed to the transport is the one built from that configuration and the
\* call's own method, relativeUrl and parameters.
C10_ConfigImmutable ==
    /\ [][client # NoClient => client' = client]_vars
    /\ [](\A r \in 1..Len(transport) :
            transport[r].options = RequestFor(calls[transport[r].call]))

\* two calls of one client: the first answered and settled, the second
\* dispatched while the first was in flight or after it
C10_Witness ==
    /\ Len(transport) = 2
    /\ Settled(transport[1].call)
    /\ transport[2].state = "pending"

====
